---- MODULE Spec2Model ----
(***************************************************************************)
(* A model of solver.cc: the Wordle solver that computes, by exhaustive    *)
(* recursion over the words still possible, the next guess with the        *)
(* smallest expected number of guesses.                                    *)
(*                                                                         *)
(* std::vector<T> is a function on 0..n-1, so that indices are the         *)
(* source's indices.  std::optional<float> is either nullopt or a          *)
(* rational <<numerator, denominator>> in lowest terms: float arithmetic   *)
(* is modelled exactly (the values met within the bounds are small         *)
(* fractions), which keeps the comparisons `<` and `==` of the source      *)
(* meaningful.                                                             *)
(***************************************************************************)
EXTENDS Integers, Sequences, FiniteSets, TLC

(***************************************************************************)
(* Program constants.                                                      *)
(***************************************************************************)
kNumPatterns == 243

kMaxNumGuesses == 6

kNumThreads == 24

kWordLen == 5

kNumLetters == 26

(***************************************************************************)
(* Bounds of the model.                                                    *)
(***************************************************************************)
\* largest vocabulary read by ReadWords
MaxWords == 4

\* largest remaining-guess budget the search is started with in SpecSearch
MaxBudget == 4

\* largest number of prior (guess, feedback) pairs on the command line
MaxPairs == 7

\* largest vocabulary size whose split into ranges is computed in SpecRange
MaxRangeWords == 60

(***************************************************************************)
(* std::vector helpers.                                                    *)
(***************************************************************************)
Size(v) == Cardinality(DOMAIN v)

EmptyVec == << >>

PushBack(v, x) == [i \in 0..Size(v) |-> IF i < Size(v) THEN v[i] ELSE x]

\* a vector from a TLA+ sequence
Vec(s) == [i \in 0..(Len(s) - 1) |-> s[i + 1]]

Range(v) == {v[i] : i \in DOMAIN v}

(***************************************************************************)
(* std::optional<float>.                                                   *)
(***************************************************************************)
nullopt == << >>

RECURSIVE Gcd(_, _)
Gcd(a, b) == IF b = 0 THEN a ELSE Gcd(b, a % b)

Rat(n, d) == LET g == Gcd(n, d) IN IF g = 0 THEN <<0, 1>> ELSE <<n \div g, d \div g>>

FromInt(n) == <<n, 1>>

RatAdd(x, y) == Rat(x[1] * y[2] + y[1] * x[2], x[2] * y[2])

RatMulInt(n, x) == Rat(n * x[1], x[2])

RatDivInt(x, n) == Rat(x[1], x[2] * n)

RatLess(x, y) == x[1] * y[2] < y[1] * x[2]

(***************************************************************************)
(* Words are strings of kWordLen lowercase letters, kept as vectors of     *)
(* one-letter strings; Ord(ch) is ch - 'a'.                                *)
(***************************************************************************)
Alphabet ==
    <<"a", "b", "c", "d", "e", "f", "g", "h", "i", "j", "k", "l", "m",
      "n", "o", "p", "q", "r", "s", "t", "u", "v", "w", "x", "y", "z">>

Ord(ch) == (CHOOSE i \in 1..kNumLetters : Alphabet[i] = ch) - 1

Word(s) == Vec(s)

hound == Word(<<"h", "o", "u", "n", "d">>)
mound == Word(<<"m", "o", "u", "n", "d">>)
round == Word(<<"r", "o", "u", "n", "d">>)
mourn == Word(<<"m", "o", "u", "r", "n">>)
nanny == Word(<<"n", "a", "n", "n", "y">>)
union == Word(<<"u", "n", "i", "o", "n">>)

\* The words a word file may hold, in the (alphabetical) order of the file.
Pool == <<hound, mound, mourn, nanny, round, union>>

(***************************************************************************)
(* ComputeWordPatternMatches, solver.cc:52-95.                             *)
(***************************************************************************)
RECURSIVE Shift(_)
Shift(c) == IF c = 0 THEN 1 ELSE Shift(c - 1) * 3

ZeroLetters == [l \in 0..(kNumLetters - 1) |-> 0]

\* first loop (lines 72-78): the exact matches, and the count of every
\* unmatched letter of the answer
RECURSIVE FirstPass(_, _, _, _)
FirstPass(guess, answer, c, st) ==
    IF c = kWordLen THEN st
    ELSE IF guess[c] = answer[c]
         THEN FirstPass(guess, answer, c + 1,
                        [st EXCEPT !.pattern = @ + Shift(c) * 2])
         ELSE FirstPass(guess, answer, c + 1,
                        [st EXCEPT !.letters_left[Ord(answer[c])] = @ + 1])

\* second loop (lines 79-86): the letters present elsewhere, left to right
RECURSIVE SecondPass(_, _, _, _)
SecondPass(guess, answer, c, st) ==
    IF c = kWordLen THEN st
    ELSE IF guess[c] # answer[c] /\ st.letters_left[Ord(guess[c])] > 0
         THEN SecondPass(guess, answer, c + 1,
                         [st EXCEPT !.pattern = @ + Shift(c) * 1,
                                    !.letters_left[Ord(guess[c])] = @ - 1])
         ELSE SecondPass(guess, answer, c + 1, st)

\* third loop (lines 87-89): letters_left is cleared for the next pair
RECURSIVE ClearPass(_, _, _)
ClearPass(answer, c, st) ==
    IF c = kWordLen THEN st
    ELSE ClearPass(answer, c + 1, [st EXCEPT !.letters_left[Ord(answer[c])] = 0])

PatternState(guess, answer) ==
    ClearPass(answer, 0,
        SecondPass(guess, answer, 0,
            FirstPass(guess, answer, 0,
                      [pattern |-> 0, letters_left |-> ZeroLetters])))

PatternOf(guess, answer) == PatternState(guess, answer).pattern

ComputeWordPatternMatches(ws) ==
    [i \in DOMAIN ws |->
        [p \in 0..(kNumPatterns - 1) |->
            [j \in DOMAIN ws |-> PatternOf(ws[i], ws[j]) = p]]]

(***************************************************************************)
(* ToPatternInt, solver.cc:102-117.  `aborted` tells that one of the two   *)
(* assertions failed, and the process with it.                             *)
(***************************************************************************)
\* ToPatternLoop with the digits of 'y' and 'g' exchanged
RECURSIVE ToPatternLoopExchanged(_, _, _, _)
ToPatternLoopExchanged(pattern, i, result, shift) ==
    IF i = Len(pattern) THEN [aborted |-> FALSE, result |-> result]
    ELSE IF pattern[i + 1] = "g"
         THEN ToPatternLoopExchanged(pattern, i + 1, result + shift * 1, shift * 3)
         ELSE IF pattern[i + 1] = "y"
              THEN ToPatternLoopExchanged(pattern, i + 1, result + shift * 2, shift * 3)
              ELSE IF pattern[i + 1] = "_"
                   THEN ToPatternLoopExchanged(pattern, i + 1, result, shift * 3)
                   ELSE [aborted |-> TRUE, result |-> result]

RECURSIVE ToPatternLoop(_, _, _, _)
ToPatternLoop(pattern, i, result, shift) ==
    IF i = Len(pattern) THEN [aborted |-> FALSE, result |-> result]
    ELSE IF pattern[i + 1] = "g"
         THEN ToPatternLoop(pattern, i + 1, result + shift * 2, shift * 3)
         ELSE IF pattern[i + 1] = "y"
              THEN ToPatternLoop(pattern, i + 1, result + shift * 1, shift * 3)
              ELSE IF pattern[i + 1] = "_"
                   THEN ToPatternLoop(pattern, i + 1, result, shift * 3)
                   ELSE [aborted |-> TRUE, result |-> result]

ToPatternInt(pattern) ==
    IF Len(pattern) # kWordLen
    THEN [aborted |-> TRUE, result |-> 0]
    ELSE ToPatternLoop(pattern, 0, 0, 1)

(***************************************************************************)
(* TrimWordPatternMatches, solver.cc:122-141.                              *)
(***************************************************************************)
NumMatches(pattern) == Cardinality({j \in DOMAIN pattern : pattern[j]})

\* the patterns lo..hi of one guess that have a match, in their order
\* (lines 128-138): those of the first half, then those of the second
RECURSIVE TrimRange(_, _, _)
TrimRange(row, lo, hi) ==
    IF lo = hi
    THEN IF NumMatches(row[lo]) > 0 THEN <<row[lo]>> ELSE << >>
    ELSE TrimRange(row, lo, (lo + hi) \div 2)
         \o TrimRange(row, (lo + hi) \div 2 + 1, hi)

TrimRow(row) == Vec(TrimRange(row, 0, Size(row) - 1))

TrimWordPatternMatches(all) == [i \in DOMAIN all |-> TrimRow(all[i])]

(***************************************************************************)
(* One worker: Thread (solver.cc:207-262) and the Recurse calls it makes   *)
(* (solver.cc:145-204), as a machine with an explicit call stack.  A       *)
(* worker is the record                                                    *)
(*   pc             "eval"  in the loop over first_word, outside the       *)
(*                          critical section                               *)
(*                  "lock"  a valid result in hand, waiting for mu         *)
(*                  "crit"  holding mu                                     *)
(*                  "done"  returned from Thread                           *)
(*   start, end     the range of first guesses                             *)
(*   first_word     the loop variable of Thread                            *)
(*   all_words_left the scratch buffers, one per recursion depth           *)
(*   stack          the frames of Thread and of the Recurse calls          *)
(*   ret            the value the last call of Recurse returned            *)
(*   result         the expected value of first_word, once computed        *)
(*   evaluated      the first guesses whose evaluation was begun           *)
(* The machine takes one step per pattern of the loops at lines 166        *)
(* and 222, per call and per return.                                       *)
(***************************************************************************)
Top(w) == w.stack[Len(w.stack)]

SetTop(w, f) == [w EXCEPT !.stack[Len(w.stack)] = f]

ThreadFrame ==
    [fn |-> "Thread", at |-> "pattern", pat |-> 0, result |-> FromInt(0),
     valid |-> TRUE, new_num_words_left |-> 0]

RecurseFrame(num_guesses, num_words_left) ==
    [fn |-> "Recurse", at |-> "entry", num_guesses |-> num_guesses,
     num_words_left |-> num_words_left, next |-> 0, pat |-> 0,
     result |-> FromInt(0), valid |-> TRUE, min_expected |-> nullopt,
     new_num_words_left |-> 0]

\* lines 223-229: the words of the whole vocabulary that match the pattern
RECURSIVE FillFromAll(_, _, _, _)
FillFromAll(pattern, nwords, word, st) ==
    IF word = nwords THEN st
    ELSE IF pattern[word]
         THEN FillFromAll(pattern, nwords, word + 1,
                          [buf |-> [st.buf EXCEPT ![st.n] = word], n |-> st.n + 1])
         ELSE FillFromAll(pattern, nwords, word + 1, st)

\* lines 167-174: the words of words_left that match the pattern
RECURSIVE FillFromLeft(_, _, _, _, _)
FillFromLeft(pattern, words_left, num_words_left, i, st) ==
    IF i = num_words_left THEN st
    ELSE IF pattern[words_left[i]]
         THEN FillFromLeft(pattern, words_left, num_words_left, i + 1,
                           [buf |-> [st.buf EXCEPT ![st.n] = words_left[i]],
                            n |-> st.n + 1])
         ELSE FillFromLeft(pattern, words_left, num_words_left, i + 1, st)

\* NextBufferIndex with the caller's buffer taken for the next one
NextBufferIndexOfCaller(num_guesses) == num_guesses - 1

\* the scratch buffer Recurse fills at depth num_guesses (line 160)
NextBufferIndex(num_guesses) == num_guesses

\* NextWord with the candidate taken from the vocabulary, not from words_left
NextWordOfVocabulary(w, f) == f.next

\* the candidate Recurse evaluates (line 163)
NextWord(w, f) == w.all_words_left[f.num_guesses - 1][f.next]

\* `return v` of Recurse: the frame is popped and the caller finds v in ret
Return(w, v) == [w EXCEPT !.stack = SubSeq(@, 1, Len(@) - 1), !.ret = v]

\* the end of one iteration of the loop at line 219
NextFirstWord(w) ==
    [w EXCEPT !.stack = << >>,
              !.first_word = @ + 1,
              !.pc = IF w.first_word + 1 < w.end THEN "eval" ELSE "done"]

\* Thread, lines 222-229 and 230-237: one pattern of first_word
ThreadPattern(w, tbl, nwords) ==
    LET f == Top(w)
        fill == FillFromAll(tbl[w.first_word][f.pat], nwords, 0,
                            [buf |-> w.all_words_left[0], n |-> 0])
        w1 == [w EXCEPT !.all_words_left[0] = fill.buf]
    IN  IF fill.buf[0] = w.first_word
        THEN \* correct guess: expected = 1 (lines 231-233, 246)
             SetTop(w1, [f EXCEPT !.new_num_words_left = fill.n,
                                  !.result = RatAdd(@, FromInt(fill.n)),
                                  !.pat = @ + 1])
        ELSE \* the call at lines 235-237
             [w1 EXCEPT !.stack = Append(
                  SetTop(w1, [f EXCEPT !.new_num_words_left = fill.n,
                                       !.at = "call"]).stack,
                  RecurseFrame(1, fill.n))]

\* Thread, lines 248-249: first_word is valid, its result goes to the
\* critical section
ThreadValid(w, nwords) ==
    [w EXCEPT !.stack = << >>,
              !.result = RatDivInt(Top(w).result, nwords),
              !.pc = "lock"]

\* Thread, lines 238-246: Recurse has returned
ThreadAfterCall(w) ==
    LET f == Top(w)
    IN  IF w.ret = nullopt
        THEN \* valid = false; break; the if at line 248 is skipped
             NextFirstWord(w)
        ELSE SetTop(w, [f EXCEPT
                 !.result = RatAdd(@, RatMulInt(f.new_num_words_left,
                                                RatAdd(FromInt(1), w.ret))),
                 !.pat = @ + 1,
                 !.at = "pattern"])

\* Recurse, lines 149-161
RecurseEntry(w, max) ==
    LET f == Top(w)
    IN  IF f.num_guesses = max THEN Return(w, nullopt)
        ELSE IF f.num_words_left = 1 THEN Return(w, FromInt(1))
        ELSE SetTop(w, [f EXCEPT !.at = "pattern"])

\* Recurse, lines 166-183: one pattern of next_word
RecursePattern(w, tbl) ==
    LET f == Top(w)
        words_left == w.all_words_left[f.num_guesses - 1]
        next_word == NextWord(w, f)
        target == NextBufferIndex(f.num_guesses)
        fill == FillFromLeft(tbl[next_word][f.pat], words_left, f.num_words_left, 0,
                             [buf |-> w.all_words_left[target], n |-> 0])
        w1 == [w EXCEPT !.all_words_left[target] = fill.buf]
    IN  IF fill.n > 0
        THEN IF fill.buf[0] = next_word
             THEN SetTop(w1, [f EXCEPT !.new_num_words_left = fill.n,
                                      !.result = RatAdd(@, FromInt(fill.n)),
                                      !.pat = @ + 1])
             ELSE [w1 EXCEPT !.stack = Append(
                      SetTop(w1, [f EXCEPT !.new_num_words_left = fill.n,
                                           !.at = "call"]).stack,
                      RecurseFrame(f.num_guesses + 1, fill.n))]
        ELSE SetTop(w1, [f EXCEPT !.new_num_words_left = fill.n, !.pat = @ + 1])

\* Recurse, lines 162-165 for the candidate after this one
NextCandidate(f) ==
    [f EXCEPT !.next = @ + 1, !.pat = 0, !.result = FromInt(0), !.valid = TRUE,
              !.at = "pattern"]

\* Recurse, lines 195-201: every pattern of next_word is done
RecurseValid(w) ==
    LET f == Top(w)
        result == RatDivInt(f.result, f.num_words_left)
    IN  SetTop(w, NextCandidate(
            IF f.min_expected = nullopt \/ RatLess(result, f.min_expected)
            THEN [f EXCEPT !.min_expected = result]
            ELSE f))

\* RecurseAfterCall with the guess of this depth not counted (no 1 + at
\* line 192)
RecurseAfterCallUncounted(w) ==
    LET f == Top(w)
    IN  IF w.ret = nullopt
        THEN SetTop(w, NextCandidate(f))
        ELSE SetTop(w, [f EXCEPT
                 !.result = RatAdd(@, RatMulInt(f.new_num_words_left, w.ret)),
                 !.pat = @ + 1,
                 !.at = "pattern"])

\* Recurse, lines 184-192: the recursive call has returned
RecurseAfterCall(w) ==
    LET f == Top(w)
    IN  IF w.ret = nullopt
        THEN \* valid = false; break; the if at line 195 is skipped
             SetTop(w, NextCandidate(f))
        ELSE SetTop(w, [f EXCEPT
                 !.result = RatAdd(@, RatMulInt(f.new_num_words_left,
                                                RatAdd(FromInt(1), w.ret))),
                 !.pat = @ + 1,
                 !.at = "pattern"])

\* One step of a worker whose pc is "eval".
StepWorker(w, tbl, nwords, max) ==
    IF w.stack = << >>
    THEN \* lines 219-221: the body of the loop is entered
         [w EXCEPT !.stack = <<ThreadFrame>>,
                   !.evaluated = @ \cup {w.first_word}]
    ELSE LET f == Top(w)
         IN  IF f.fn = "Thread"
             THEN IF f.at = "call" THEN ThreadAfterCall(w)
                  ELSE IF f.pat < Size(tbl[w.first_word])
                       THEN ThreadPattern(w, tbl, nwords)
                       ELSE ThreadValid(w, nwords)
             ELSE IF f.at = "entry" THEN RecurseEntry(w, max)
                  ELSE IF f.at = "call" THEN RecurseAfterCall(w)
                  ELSE IF f.next >= f.num_words_left
                       THEN Return(w, f.min_expected)
                       ELSE IF f.pat < Size(tbl[NextWord(w, f)])
                            THEN RecursePattern(w, tbl)
                            ELSE RecurseValid(w)

\* A worker is between two first guesses, or out of the loop, when its
\* stack is empty.
AtRest(w) == w.stack = << >>

\* 2^k steps of a worker, or fewer when it comes to rest before
RECURSIVE StepsPow(_, _, _, _, _)
StepsPow(w, k, tbl, nwords, max) ==
    IF AtRest(w) THEN w
    ELSE IF k = 0 THEN StepWorker(w, tbl, nwords, max)
    ELSE StepsPow(StepsPow(w, k - 1, tbl, nwords, max), k - 1, tbl, nwords, max)

RECURSIVE StepsToRest(_, _, _, _, _)
StepsToRest(w, k, tbl, nwords, max) ==
    IF AtRest(w) THEN w
    ELSE StepsToRest(StepsPow(w, k, tbl, nwords, max), k + 1, tbl, nwords, max)

\* The evaluation of one first guess, lines 220-249: from the head of the
\* loop at line 219 to the critical section, or to the next first guess.
EvaluateFirstWord(w, tbl, nwords, max) ==
    StepsToRest(StepWorker(w, tbl, nwords, max), 0, tbl, nwords, max)

\* lines 213-219: a thread is created, allocates its buffers and comes to
\* the head of its loop
NewWorker(start, end, nwords, max) ==
    [pc |-> IF start < end THEN "eval" ELSE "done",
     start |-> start, end |-> end, first_word |-> start,
     all_words_left |-> [d \in 0..(max - 1) |-> [k \in 0..(nwords - 1) |-> 0]],
     stack |-> << >>, ret |-> nullopt, result |-> nullopt, evaluated |-> {}]

(***************************************************************************)
(* The state of main (solver.cc:284-354) and of the threads it creates.    *)
(***************************************************************************)
VARIABLES
    words,                 \* the vocabulary, pruned by the pairs applied
    max_num_guesses,       \* the remaining-guess budget
    applied,               \* the (guess, pattern) pairs of argv consumed so far
    mainpc,                \* "args", "abort", "spawn", "join" or "done"
    word_pattern_matches,  \* the trimmed table, once computed (line 321)
    fout,                  \* the result log
    mu,                    \* the threads holding the mutex: none, or one
    min_expected,          \* the best expected value so far (line 330)
    best_word,             \* the first guess with that value (line 331)
    threads,               \* the workers created so far (line 324)
    report,                \* what main printed at lines 346-350
    part                   \* the range computation alone (lines 333-334)

vars ==
    <<words, max_num_guesses, applied, mainpc, word_pattern_matches, fout, mu,
      min_expected, best_word, threads, report, part>>

\* all_word_pattern_matches is ComputeWordPatternMatches(words) at every
\* point of main where it is read (lines 291-292 and 315)
AllWordPatternMatches == ComputeWordPatternMatches(words)

\* the order-preserving selections of n words among the first k of the pool
RECURSIVE SubVocabularies(_, _)
SubVocabularies(k, n) ==
    IF n = 0 THEN {<< >>}
    ELSE IF k = 0 THEN {}
    ELSE SubVocabularies(k - 1, n)
         \cup {Append(s, Pool[k]) : s \in SubVocabularies(k - 1, n - 1)}

\* what ReadWords may return: 1 to MaxWords words of the pool, no duplicates
Vocabularies ==
    UNION {{Vec(s) : s \in SubVocabularies(Len(Pool), n)} : n \in 1..MaxWords}

\* the guesses and the feedback strings a command line may hold
Guesses == {Pool[k] : k \in 1..Len(Pool)}

Feedbacks ==
    {<<"g", "g", "g", "g", "g">>, <<"_", "g", "g", "g", "g">>,
     <<"_", "_", "_", "g", "_">>, <<"_", "g", "g", "_", "y">>,
     <<"_", "_", "_", "_", "_">>, <<"_", "y", "y", "y", "_">>,
     <<"g", "g", "g", "g">>, <<"g", "g", "x", "g", "g">>,
     <<"g", "g", "g", "g", "g", "g">>}

NoFile == [state |-> "none", file |-> 0, lines |-> << >>]

NoReport == [text |-> "", word |-> << >>]

NoPart == [size |-> 0, thread |-> 0, ranges |-> << >>]

\* main at line 295: the words are read, no argument is consumed yet
Init ==
    /\ words \in Vocabularies
    /\ max_num_guesses = kMaxNumGuesses
    /\ applied = << >>
    /\ mainpc = "args"
    /\ word_pattern_matches = EmptyVec
    /\ fout = NoFile
    /\ mu = {}
    /\ min_expected = nullopt
    /\ best_word = "uninitialized"
    /\ threads = EmptyVec
    /\ report = NoReport
    /\ part = NoPart

\* std::find, line 300: the first index of guess, words.size() when absent
Find(ws, guess) ==
    IF \E i \in DOMAIN ws : ws[i] = guess
    THEN CHOOSE i \in DOMAIN ws : ws[i] = guess /\ \A j \in 0..(i - 1) : ws[j] # guess
    ELSE Size(ws)

\* lines 307-312
RECURSIVE NewWords(_, _, _, _)
NewWords(ws, matches, i, acc) ==
    IF i = Size(ws) THEN acc
    ELSE NewWords(ws, matches, i + 1, IF matches[i] THEN PushBack(acc, ws[i]) ELSE acc)

\* WordsNotEmpty with the assertion compiled out
WordsNotEmptyUnchecked(ws) == TRUE

\* the assertion at line 317
WordsNotEmpty(ws) == Size(ws) # 0

\* the assertion at line 319
BudgetLeft(max) == max > 0

\* One iteration of the loop at lines 296-318.
ApplyGuess(guess, pattern) ==
    /\ mainpc = "args"
    /\ Len(applied) < MaxPairs
    /\ applied' = Append(applied, [guess |-> guess, pattern |-> pattern])
    /\ LET word_i == Find(words, guess)
           decoded == ToPatternInt(pattern)
           pattern_int == decoded.result
       IN  IF word_i = Size(words) \/ decoded.aborted
           THEN \* assert at line 301, 103 or 112
                /\ mainpc' = "abort"
                /\ UNCHANGED <<words, max_num_guesses>>
           ELSE LET new_words ==
                        NewWords(words, AllWordPatternMatches[word_i][pattern_int],
                                 0, EmptyVec)
                IN  /\ words' = new_words
                    /\ max_num_guesses' = max_num_guesses - 1
                    /\ mainpc' = IF WordsNotEmpty(new_words) THEN "args" ELSE "abort"
    /\ UNCHANGED <<word_pattern_matches, fout, mu, min_expected, best_word,
                   threads, report, part>>

\* lines 319-331: the end of the arguments
StartSearch ==
    /\ mainpc = "args"
    /\ IF BudgetLeft(max_num_guesses)
       THEN /\ mainpc' = "spawn"
            /\ word_pattern_matches' = TrimWordPatternMatches(AllWordPatternMatches)
            /\ fout' = [state |-> "open",
                        file |-> kMaxNumGuesses - max_num_guesses + 1,
                        lines |-> << >>]
       ELSE /\ mainpc' = "abort"
            /\ UNCHANGED <<word_pattern_matches, fout>>
    /\ UNCHANGED <<words, max_num_guesses, applied, mu, min_expected, best_word,
                   threads, report, part>>

\* ThreadRange with the size of a range rounded down once for all
ThreadRangeRoundedDown(nwords, thread) ==
    [start |-> (nwords \div kNumThreads) * thread,
     end |-> (nwords \div kNumThreads) * (thread + 1)]

\* lines 333-334
ThreadRange(nwords, thread) ==
    [start |-> (nwords * thread) \div kNumThreads,
     end |-> (nwords * (thread + 1)) \div kNumThreads]

\* One iteration of the loop at lines 332-341.
Spawn ==
    /\ mainpc = "spawn"
    /\ LET thread == Size(threads)
           r == ThreadRange(Size(words), thread)
       IN  /\ threads' = PushBack(threads,
                             NewWorker(r.start, r.end, Size(words), max_num_guesses))
           /\ mainpc' = IF thread + 1 < kNumThreads THEN "spawn" ELSE "join"
    /\ UNCHANGED <<words, max_num_guesses, applied, word_pattern_matches, fout, mu,
                   min_expected, best_word, report, part>>

\* Thread t evaluates its first_word, lines 220-249.
Evaluate(t) ==
    /\ threads[t].pc = "eval"
    /\ threads' = [threads EXCEPT ![t] =
                      EvaluateFirstWord(@, word_pattern_matches, Size(words),
                                        max_num_guesses)]
    /\ UNCHANGED <<words, max_num_guesses, applied, mainpc, word_pattern_matches,
                   fout, mu, min_expected, best_word, report, part>>

\* std::lock_guard, line 251
Lock(t) ==
    /\ threads[t].pc = "lock"
    /\ mu = {}
    /\ mu' = {t}
    /\ threads' = [threads EXCEPT ![t].pc = "crit"]
    /\ UNCHANGED <<words, max_num_guesses, applied, mainpc, word_pattern_matches,
                   fout, min_expected, best_word, report, part>>

\* operator<< of a float, line 252: six significant digits.  The values
\* logged are at least 1 and below 10, which leaves five decimals: the value
\* is kept as the nearest number of hundred-thousandths.
Shown(x) == (2 * 100000 * x[1] + x[2]) \div (2 * x[2])

\* operator< of std::string
WordLess(a, b) ==
    \E c \in 0..(kWordLen - 1) :
        /\ \A e \in 0..(c - 1) : a[e] = b[e]
        /\ Ord(a[c]) < Ord(b[c])

\* operator< of std::pair<float, std::string>, used by std::sort at line 277
RecordLess(r, q) == r[1] < q[1] \/ (r[1] = q[1] /\ WordLess(r[2], q[2]))

\* a record put at its place in a sorted sequence of records
Inserted(r, sorted) ==
    LET before == {k \in 1..Len(sorted) : ~RecordLess(r, sorted[k])}
        n == Cardinality(before)
    IN  SubSeq(sorted, 1, n) \o <<r>> \o SubSeq(sorted, n + 1, Len(sorted))

\* SortResults, lines 265-282: the records are read back, sorted and
\* written again; a value of six digits is read and written unchanged
RECURSIVE SortResults(_)
SortResults(lines) ==
    IF lines = << >> THEN << >>
    ELSE Inserted(lines[Len(lines)], SortResults(SubSeq(lines, 1, Len(lines) - 1)))

\* Better without the tie-break on the index
BetterStrictly(result, first_word) ==
    \/ min_expected = nullopt
    \/ RatLess(result, min_expected)

\* the condition at lines 255-256
Better(result, first_word) ==
    \/ min_expected = nullopt
    \/ RatLess(result, min_expected)
    \/ (result = min_expected /\ first_word < best_word)

\* Critical with the record written only for a new best
CriticalLogsBest(t) ==
    /\ threads[t].pc = "crit"
    /\ LET w == threads[t]
       IN  /\ IF Better(w.result, w.first_word)
              THEN /\ min_expected' = w.result
                   /\ best_word' = w.first_word
                   /\ fout' = [fout EXCEPT
                                  !.lines = Append(@, <<Shown(w.result), words[w.first_word]>>)]
              ELSE UNCHANGED <<min_expected, best_word, fout>>
           /\ threads' = [threads EXCEPT ![t] = NextFirstWord(w)]
    /\ mu' = {}
    /\ UNCHANGED <<words, max_num_guesses, applied, mainpc, word_pattern_matches,
                   report, part>>

\* lines 252-260, and the release of mu at the end of the block
Critical(t) ==
    /\ threads[t].pc = "crit"
    /\ LET w == threads[t]
       IN  /\ fout' = [fout EXCEPT !.lines = Append(@, <<Shown(w.result), words[w.first_word]>>)]
           /\ IF Better(w.result, w.first_word)
              THEN min_expected' = w.result /\ best_word' = w.first_word
              ELSE UNCHANGED <<min_expected, best_word>>
           /\ threads' = [threads EXCEPT ![t] = NextFirstWord(w)]
    /\ mu' = {}
    /\ UNCHANGED <<words, max_num_guesses, applied, mainpc, word_pattern_matches,
                   report, part>>

\* every thread has been joined (lines 342-344)
Joined == \A t \in DOMAIN threads : threads[t].pc = "done"

\* Report without the joins: main reports as soon as the threads are created
ReportUnjoined ==
    /\ mainpc = "join"
    /\ report' = IF min_expected = nullopt
                 THEN [text |-> "You can't win!", word |-> << >>]
                 ELSE [text |-> "Play the word: ", word |-> words[best_word]]
    /\ fout' = [fout EXCEPT !.state = "closed", !.lines = SortResults(@)]
    /\ mainpc' = "done"
    /\ UNCHANGED <<words, max_num_guesses, applied, word_pattern_matches, mu,
                   min_expected, best_word, threads, part>>

\* main has created every thread, and every join has returned
ReportReady == mainpc = "join" /\ Joined

\* lines 342-353
Report ==
    /\ ReportReady
    /\ report' = IF min_expected = nullopt
                 THEN [text |-> "You can't win!", word |-> << >>]
                 ELSE [text |-> "Play the word: ", word |-> words[best_word]]
    /\ fout' = [fout EXCEPT !.state = "closed", !.lines = SortResults(@)]
    /\ mainpc' = "done"
    /\ UNCHANGED <<words, max_num_guesses, applied, word_pattern_matches, mu,
                   min_expected, best_word, threads, part>>

Search ==
    \/ StartSearch
    \/ Spawn
    \/ \E t \in DOMAIN threads : Evaluate(t)
    \/ \E t \in DOMAIN threads : Lock(t)
    \/ \E t \in DOMAIN threads : Critical(t)
    \/ Report

Next ==
    \/ \E guess \in Guesses, pattern \in Feedbacks : ApplyGuess(guess, pattern)
    \/ Search

\* The whole program, from the first argument on.
Spec == Init /\ [][Next]_vars

\* main at line 319, after any arguments: every vocabulary with every
\* budget from 1 to MaxBudget
InitSearch ==
    /\ words \in Vocabularies
    /\ max_num_guesses \in 1..MaxBudget
    /\ applied = << >>
    /\ mainpc = "args"
    /\ word_pattern_matches = EmptyVec
    /\ fout = NoFile
    /\ mu = {}
    /\ min_expected = nullopt
    /\ best_word = "uninitialized"
    /\ threads = EmptyVec
    /\ report = NoReport
    /\ part = NoPart

\* The search alone, the threads interleaved.
SpecSearch == InitSearch /\ [][Search]_vars

(***************************************************************************)
(* The search with the steps of Thread and Recurse taken one at a time.    *)
(* A worker shares nothing with the others but the table, which is         *)
(* read-only, so what it can do does not depend on the schedule: the       *)
(* threads run here one after the other, once all are created.             *)
(***************************************************************************)
Scheduled(t) ==
    /\ mainpc = "join"
    /\ \A u \in 0..(t - 1) : threads[u].pc = "done"

Step(t) ==
    /\ Scheduled(t)
    /\ threads[t].pc = "eval"
    /\ threads' = [threads EXCEPT ![t] =
                      StepWorker(@, word_pattern_matches, Size(words), max_num_guesses)]
    /\ UNCHANGED <<words, max_num_guesses, applied, mainpc, word_pattern_matches,
                   fout, mu, min_expected, best_word, report, part>>

SearchBySteps ==
    \/ StartSearch
    \/ Spawn
    \/ \E t \in DOMAIN threads : Step(t)
    \/ \E t \in DOMAIN threads : Scheduled(t) /\ Lock(t)
    \/ \E t \in DOMAIN threads : Scheduled(t) /\ Critical(t)
    \/ Report

SpecStep == InitSearch /\ [][SearchBySteps]_vars

(***************************************************************************)
(* The split of the vocabulary into ranges (lines 332-334) alone, for      *)
(* vocabularies of up to MaxRangeWords words.                              *)
(***************************************************************************)
InitRange ==
    /\ part \in [size : 1..MaxRangeWords, thread : {0}, ranges : {<< >>}]
    /\ words = EmptyVec
    /\ max_num_guesses = kMaxNumGuesses
    /\ applied = << >>
    /\ mainpc = "spawn"
    /\ word_pattern_matches = EmptyVec
    /\ fout = NoFile
    /\ mu = {}
    /\ min_expected = nullopt
    /\ best_word = "uninitialized"
    /\ threads = EmptyVec
    /\ report = NoReport

NextRange ==
    /\ part.thread < kNumThreads
    /\ part' = [part EXCEPT !.thread = @ + 1,
                            !.ranges = Append(@, ThreadRange(part.size, part.thread))]
    /\ UNCHANGED <<words, max_num_guesses, applied, mainpc, word_pattern_matches,
                   fout, mu, min_expected, best_word, threads, report>>

SpecRange == InitRange /\ [][NextRange]_vars

(***************************************************************************)
(* Definitions the properties below are stated with.                       *)
(***************************************************************************)
\* every thread is created and has returned
AllDone == mainpc \in {"join", "done"} /\ Joined

\* The feedback classes of the answers in S when w is guessed.
ClassesOf(S, w) ==
    {{a \in S : PatternOf(words[w], words[a]) = PatternOf(words[w], words[a0])} :
        a0 \in S}

\* The totals, over the answers in S, of the number of guesses of every
\* strategy that guesses only words still possible and finds every answer
\* of S within b guesses: the first guess w counts once for every answer,
\* and finds w; every other feedback class goes on with a strategy of its
\* own and one guess fewer.
RECURSIVE StrategyTotals(_, _), SumOfTotals(_, _)
StrategyTotals(S, b) ==
    IF b = 0 THEN {}
    ELSE UNION {{Cardinality(S) + x : x \in SumOfTotals(ClassesOf(S, w) \ {{w}}, b - 1)} :
                   w \in S}

SumOfTotals(classes, b) ==
    IF classes = {} THEN {0}
    ELSE LET C == CHOOSE D \in classes : TRUE
         IN  {x + y : x \in StrategyTotals(C, b), y \in SumOfTotals(classes \ {C}, b)}

Minimum(T) == CHOOSE x \in T : \A y \in T : x <= y

\* the smallest average over those strategies, nullopt when there is none
Optimum ==
    LET T == StrategyTotals(DOMAIN words, max_num_guesses)
    IN  IF T = {} THEN nullopt ELSE Rat(Minimum(T), Size(words))

\* what Thread finds for first guess i, run alone from fresh buffers
AloneOn(i) ==
    EvaluateFirstWord(NewWorker(i, i + 1, Size(words), max_num_guesses),
                      word_pattern_matches, Size(words), max_num_guesses)

\* the first guesses Thread does not discard, and their expected values
ValidFirstWords == {i \in DOMAIN words : AloneOn(i).pc = "lock"}

ValueOf(i) == AloneOn(i).result

(***************************************************************************)
(* C1. When the search is over, min_expected is the smallest average       *)
(* number of guesses over all the strategies that guess only words still   *)
(* possible and find every answer within the budget, and main prints       *)
(* "You can't win!" exactly when there is no such strategy.                *)
(***************************************************************************)
SearchFindsOptimum ==
    /\ AllDone => min_expected = Optimum
    /\ mainpc = "done" => (report.text = "You can't win!" <=> Optimum = nullopt)

\* a search of four words that ends with the average 7/4
SearchFindsOptimumWitness ==
    /\ mainpc = "done"
    /\ Size(words) = 4
    /\ min_expected = <<7, 4>>

(***************************************************************************)
(* C3. Once every worker has finished, min_expected and best_word are the  *)
(* smallest expected value among the first guesses not discarded and the   *)
(* lowest index with that value, whatever the order of the critical        *)
(* sections was.                                                           *)
(***************************************************************************)
BestIsLeastAndLowest ==
    AllDone =>
        IF ValidFirstWords = {}
        THEN min_expected = nullopt
        ELSE /\ min_expected # nullopt
             /\ best_word \in ValidFirstWords
             /\ ValueOf(best_word) = min_expected
             /\ \A i \in ValidFirstWords :
                    /\ ~RatLess(ValueOf(i), min_expected)
                    /\ ValueOf(i) = min_expected => best_word <= i

\* the first record of the log has the best value but not the best word: a
\* worker with a higher index came first, and the tie went to the lower
BestIsLeastAndLowestWitness ==
    /\ AllDone
    /\ Len(fout.lines) >= 2
    /\ mainpc = "join"
    /\ fout.lines[1][1] = Shown(min_expected)
    /\ fout.lines[1][2] # words[best_word]

(***************************************************************************)
(* C4, as the claim states it: when the search is over the log holds one   *)
(* record for every word of the vocabulary.                                *)
(***************************************************************************)
OneRecordPerWord ==
    mainpc = "done" =>
        /\ Len(fout.lines) = Size(words)
        /\ {fout.lines[k][2] : k \in 1..Len(fout.lines)} = Range(words)

(***************************************************************************)
(* C4, amended: when the search is over the log holds one record for       *)
(* every first guess that was not discarded, with its expected value, no   *)
(* record for a discarded one, and no word twice.                          *)
(***************************************************************************)
OneRecordPerValidWord ==
    AllDone =>
        /\ Len(fout.lines) = Cardinality(ValidFirstWords)
        /\ {fout.lines[k] : k \in 1..Len(fout.lines)}
               = {<<Shown(ValueOf(i)), words[i]>> : i \in ValidFirstWords}

\* a search in which some first guesses are discarded and others are not
OneRecordPerValidWordWitness ==
    /\ mainpc = "done"
    /\ Len(fout.lines) > 0
    /\ Len(fout.lines) < Size(words)

(***************************************************************************)
(* C8. The ranges handed to the threads are contiguous and disjoint, cover *)
(* exactly the indices of the vocabulary, and none holds more than         *)
(* ceil(V / kNumThreads) indices.                                          *)
(***************************************************************************)
RangesPartition ==
    LET r == part.ranges
        n == Len(r)
    IN  /\ \A k \in 1..n : r[k].start <= r[k].end
        /\ n >= 1 => r[1].start = 0
        /\ \A k \in 1..(n - 1) : r[k].end = r[k + 1].start
        /\ \A k \in 1..n :
               (r[k].end - r[k].start) * kNumThreads < part.size + kNumThreads
        /\ n = kNumThreads =>
               /\ r[n].end = part.size
               /\ \A i \in 0..(part.size - 1) :
                      Cardinality({k \in 1..n : r[k].start <= i /\ i < r[k].end}) = 1

\* all the ranges of a vocabulary that does not divide evenly: some ranges
\* hold one index and some two
RangesPartitionWitness ==
    /\ part.thread = kNumThreads
    /\ part.size > kNumThreads
    /\ \E k \in 1..Len(part.ranges) : part.ranges[k].end - part.ranges[k].start = 1
    /\ \E k \in 1..Len(part.ranges) : part.ranges[k].end - part.ranges[k].start = 2

(***************************************************************************)
(* C9, as the claim states it: the search run on the table that was not    *)
(* trimmed logs the same records and ends with the same best word and      *)
(* value as the search run on the trimmed table.                           *)
(***************************************************************************)
\* the records a worker emits when it runs Thread on the table tbl
RECURSIVE RecordsOfWorker(_, _, _)
RecordsOfWorker(w, tbl, acc) ==
    IF w.pc = "done" THEN acc
    ELSE IF w.pc = "eval"
         THEN RecordsOfWorker(
                  EvaluateFirstWord(w, tbl, Size(words), max_num_guesses), tbl, acc)
         ELSE RecordsOfWorker(NextFirstWord(w), tbl,
                              acc \cup {<<w.result, w.first_word>>})

RecordsOn(tbl) ==
    UNION {RecordsOfWorker(
               NewWorker(ThreadRange(Size(words), t).start,
                         ThreadRange(Size(words), t).end,
                         Size(words), max_num_guesses),
               tbl, {}) : t \in 0..(kNumThreads - 1)}

\* the least record: the smallest value, and the lowest index with it
IsLeast(r, records) ==
    /\ r \in records
    /\ \A q \in records :
           /\ ~RatLess(q[1], r[1])
           /\ q[1] = r[1] => r[2] <= q[2]

TrimmingChangesNoResult ==
    mainpc = "done" =>
        LET untrimmed == RecordsOn(AllWordPatternMatches)
        IN  /\ {fout.lines[k] : k \in 1..Len(fout.lines)}
                   = {<<Shown(r[1]), words[r[2]]>> : r \in untrimmed}
            /\ IF untrimmed = {}
               THEN min_expected = nullopt
               ELSE /\ min_expected # nullopt
                    /\ IsLeast(<<min_expected, best_word>>, untrimmed)

(***************************************************************************)
(* The steps the search still has to take: three for every first guess     *)
(* not yet done with (its evaluation, the lock, the critical section), one *)
(* for every thread to create, and those of main.                          *)
(***************************************************************************)
RemainingOfThread(t) ==
    IF t \in DOMAIN threads
    THEN LET w == threads[t]
         IN  3 * (w.end - w.first_word)
             - (IF w.pc = "lock" THEN 1 ELSE IF w.pc = "crit" THEN 2 ELSE 0)
    ELSE LET r == ThreadRange(Size(words), t)
         IN  1 + 3 * (r.end - r.start)

RECURSIVE RemainingOfThreads(_)
RemainingOfThreads(t) ==
    IF t = kNumThreads THEN 0 ELSE RemainingOfThread(t) + RemainingOfThreads(t + 1)

Remaining ==
    RemainingOfThreads(0)
    + (IF mainpc = "args" THEN 3
       ELSE IF mainpc = "spawn" THEN 2
       ELSE IF mainpc = "join" THEN 1 ELSE 0)

\* A thread, or main creating or joining the threads, can take a step.  A
\* thread whose pc is "eval" can, Evaluate has no other condition; and main
\* can report when ReportReady, Report has no other.
CanRun ==
    \/ \E t \in DOMAIN threads : threads[t].pc = "eval"
    \/ ReportReady
    \/ ENABLED (\/ Spawn
                \/ \E t \in DOMAIN threads : Lock(t)
                \/ \E t \in DOMAIN threads : Critical(t))

WellFormed(pattern) ==
    /\ Len(pattern) = kWordLen
    /\ \A i \in 1..Len(pattern) : pattern[i] \in {"_", "y", "g"}

SymbolDigit(ch) == IF ch = "g" THEN 2 ELSE IF ch = "y" THEN 1 ELSE 0

\* the digit of position c in a pattern number
DigitOf(p, c) == (p \div Shift(c)) % 3

\* the feedback of guess against answer is the one the string states
AnswersTo(guess, pattern, answer) ==
    \A c \in 0..(kWordLen - 1) :
        DigitOf(PatternOf(guess, answer), c) = SymbolDigit(pattern[c + 1])

BadPair(ws, pair) ==
    \/ pair.guess \notin Range(ws)
    \/ ~WellFormed(pair.pattern)
    \/ \A a \in Range(ws) : ~AnswersTo(pair.guess, pair.pattern, a)

AsSeq(v) == [i \in 1..Size(v) |-> v[i - 1]]

\* the words of ws that answer the pair, in their order
Kept(ws, pair) ==
    Vec(SelectSeq(AsSeq(ws), LAMBDA a : AnswersTo(pair.guess, pair.pattern, a)))

LastApplied == applied'[Len(applied')]

(***************************************************************************)
(* C5. A pair whose guess is not in the vocabulary as pruned so far, whose *)
(* feedback is not five symbols of _, y, g, or which leaves no word, and a *)
(* budget of zero or less at the end of the pairs, stop the process: no    *)
(* thread is created, no log is opened, nothing is reported.               *)
(***************************************************************************)
BadInputAborts ==
    /\ [][(applied' # applied /\ BadPair(words, LastApplied))
              => mainpc' = "abort"]_vars
    /\ [][(mainpc = "args" /\ applied' = applied /\ max_num_guesses <= 0)
              => mainpc' = "abort"]_vars
    /\ [](mainpc = "abort" =>
              /\ threads = EmptyVec
              /\ fout = NoFile
              /\ report = NoReport)
    /\ [][mainpc = "abort" => UNCHANGED vars]_vars

\* a well-formed pair after another left no word
BadInputAbortsWitness ==
    /\ mainpc = "abort"
    /\ Len(applied) = 2
    /\ Size(words) = 0

(***************************************************************************)
(* C6. Every pair applied leaves the words of the vocabulary whose         *)
(* feedback against the guess is the one the string states, in their       *)
(* order, and a budget one lower; when the pairs leave one word, the       *)
(* search recommends it with the expected value 1.                         *)
(***************************************************************************)
PairsPrune ==
    /\ [][(applied' # applied /\ mainpc' # "abort") =>
              /\ words' = Kept(words, LastApplied)
              /\ max_num_guesses' = max_num_guesses - 1]_vars
    /\ []((mainpc = "done" /\ Len(applied) > 0 /\ Size(words) = 1) =>
              /\ report = [text |-> "Play the word: ", word |-> words[0]]
              /\ min_expected = FromInt(1))

\* two pairs left one word of a larger vocabulary, and it is recommended
PairsPruneWitness ==
    /\ mainpc = "done"
    /\ Len(applied) = 2
    /\ applied[1].guess # applied[2].guess
    /\ Size(words) = 1
    /\ report.word = words[0]

(***************************************************************************)
(* The path of a frame: what the frames below it guessed, and what         *)
(* feedback each of the branches it is on stands for.                      *)
(***************************************************************************)
\* the word frame k of worker w evaluates as a guess
GuessOf(w, k) == IF k = 1 THEN w.first_word ELSE NextWord(w, w.stack[k])

\* frame k of worker w is evaluating a guess
Evaluating(w, k) ==
    \/ w.stack[k].fn = "Thread"
    \/ w.stack[k].at = "call"
    \/ (w.stack[k].at = "pattern" /\ w.stack[k].next < w.stack[k].num_words_left)

\* the feedback of the branch frame k is on: the one that a word of the
\* row of its pattern gives to the guess
FeedbackOf(w, k) ==
    LET g == GuessOf(w, k)
        row == word_pattern_matches[g][w.stack[k].pat]
        answer == CHOOSE a \in DOMAIN words : row[a]
    IN  PatternOf(words[g], words[answer])

\* the working set of frame k: the words that answer every guess on the
\* path to it with the feedback of the path
RECURSIVE WorkingSet(_, _)
WorkingSet(w, k) ==
    IF k = 1 THEN DOMAIN words
    ELSE {a \in WorkingSet(w, k - 1) :
              PatternOf(words[GuessOf(w, k - 1)], words[a]) = FeedbackOf(w, k - 1)}

\* the first n entries of buf are the members of S in increasing order
HoldsInOrder(buf, n, S) ==
    /\ n = Cardinality(S)
    /\ {buf[i] : i \in 0..(n - 1)} = S
    /\ \A i \in 0..(n - 2) : buf[i] < buf[i + 1]

\* the depth of frame k: 0 for Thread, num_guesses for Recurse
DepthOf(w, k) == IF k = 1 THEN 0 ELSE w.stack[k].num_guesses

(***************************************************************************)
(* C2. At every depth the word evaluated as the next guess is in the       *)
(* working set of that depth: it answers every guess made on the path      *)
(* with the feedback of the path.                                          *)
(***************************************************************************)
GuessesAreStillPossible ==
    \A t \in DOMAIN threads :
        \A k \in 1..Len(threads[t].stack) :
            Evaluating(threads[t], k) =>
                GuessOf(threads[t], k) \in WorkingSet(threads[t], k)

\* Recurse, two calls deep, evaluates its second candidate
GuessesAreStillPossibleWitness ==
    \E t \in DOMAIN threads :
        /\ Len(threads[t].stack) = 3
        /\ threads[t].stack[3].at = "pattern"
        /\ threads[t].stack[3].next = 1
        /\ threads[t].stack[3].num_words_left >= 2

(***************************************************************************)
(* C10. A call of Recurse with num_guesses = d writes no buffer below d;   *)
(* the first num_words_left entries of buffer d-1 are its working set as   *)
(* long as it runs; what its caller built is still there when it has       *)
(* returned; and every subset it builds is within its working set.         *)
(***************************************************************************)
BuffersAreAStack ==
    /\ [][\A t \in DOMAIN threads :
              \A k \in 2..Len(threads[t].stack) :
                  \A i \in 0..(threads[t].stack[k].num_guesses - 1) :
                      threads'[t].all_words_left[i] = threads[t].all_words_left[i]]_vars
    /\ [](\A t \in DOMAIN threads :
              LET w == threads[t]
              IN  \A k \in 1..Len(w.stack) :
                      /\ k >= 2 =>
                             HoldsInOrder(w.all_words_left[DepthOf(w, k) - 1],
                                          w.stack[k].num_words_left,
                                          WorkingSet(w, k))
                      /\ w.stack[k].at = "call" =>
                             HoldsInOrder(w.all_words_left[DepthOf(w, k)],
                                          w.stack[k].new_num_words_left,
                                          {a \in WorkingSet(w, k) :
                                               word_pattern_matches[GuessOf(w, k)]
                                                                   [w.stack[k].pat][a]})
                      /\ {w.all_words_left[DepthOf(w, k)][i] :
                              i \in 0..(w.stack[k].new_num_words_left - 1)}
                             \subseteq WorkingSet(w, k))

\* a call two deep has returned a value to a call of Recurse, which finds
\* the subset it built of two words or more
BuffersAreAStackWitness ==
    \E t \in DOMAIN threads :
        /\ Len(threads[t].stack) = 2
        /\ threads[t].stack[2].at = "call"
        /\ threads[t].stack[2].new_num_words_left >= 2
        /\ threads[t].ret # nullopt
====
